---- MODULE Spec2Model ----
(***************************************************************************)
(* A model of rua's single-pass compiler front-end (src/compiler.rs) and   *)
(* of its constant arithmetic engine (src/consts.rs).                      *)
(*                                                                         *)
(* Two specifications live here:                                           *)
(*   FoldSpec  constant folding of binary-operator expressions             *)
(*   Spec      the compiler driver, local declarations and assignments     *)
(***************************************************************************)
EXTENDS Integers, Sequences, FiniteSets, TLC

VARIABLES
    proto_contexts, \* Compiler::proto_contexts, the stack of function contexts
    pc,             \* where run is: "new", "walk" (about to visit a statement),
                    \* "done" (a handler returned Ok), "returned"
    result,         \* what run returned: "none" yet, "ok" (a prototype), "err"
    stat,           \* the statement compiled last
    regs0,          \* the register file before that statement's instructions run
    top0,           \* the register top before that statement
    locals0,        \* the number of locals before that statement
    moves,          \* assign_stat's to_move, in order of recording
    apply_log,      \* (instructions emitted, register top) at each point of "apply moves"
    fexpr,   \* the expression handed to compile_expr (FoldSpec)
    flhs,    \* what folding its left operand gave
    frhs,    \* what folding its right operand gave
    fres,    \* what try_const_folding returned for it
    pool     \* the constant pool compile_expr interns into

foldVars == <<fexpr, flhs, frhs, fres, pool>>

compVars == <<proto_contexts, pc, result, stat, regs0, top0, locals0, moves, apply_log>>

vars == <<proto_contexts, pc, result, stat, regs0, top0, locals0, moves, apply_log,
          fexpr, flhs, frhs, fres, pool>>

(***************************************************************************)
(* Bounds of the model.                                                    *)
(***************************************************************************)
\* Integer literals range over -MaxInt..MaxInt.
MaxInt == 2

\* Float literals range over k/2 for k in -MaxHalf..MaxHalf.
MaxHalf == 1

\* A statement has at most MaxSize names (or targets) and expressions
\* together.
MaxSize == 4

\* A function body declares at most MaxLocals locals.
MaxLocals == 2

\* Statements are visited only while the register top is within MaxTop.
MaxTop == 2

\* Magnitudes above MaxMag (numerator or denominator of a pow result) are
\* not tracked exactly.
MaxMag == 100000

(***************************************************************************)
(* Numbers.  A Const of the Int or Float variant is a record               *)
(*   [tag, cls, sg, n, d]                                                  *)
(* tag "int": the integer sg * n (d = 1, cls "fin").                       *)
(* tag "float": cls "nan", cls "inf" (sign sg), cls "fin" (the rational    *)
(* sg * n / d in lowest terms; n = 0 is a zero of sign sg), or cls "opq":  *)
(* a finite nonzero value of sign sg whose magnitude the model does not    *)
(* track (an irrational power, or a power beyond MaxMag).  Floats are      *)
(* exact rationals here: binary rounding is not modelled.                  *)
(***************************************************************************)
Abs(x) == IF x < 0 THEN -x ELSE x

Sgn(x) == IF x < 0 THEN -1 ELSE 1

RECURSIVE GCD(_, _)
GCD(x, y) == IF y = 0 THEN x ELSE GCD(y, x % y)

ConstInt(v) == [tag |-> "int", cls |-> "fin", sg |-> Sgn(v), n |-> Abs(v), d |-> 1]

IntVal(c) == c.sg * c.n

\* The float sg * n / d, reduced to lowest terms.
ConstFloat(sg, n, d) ==
    LET g == GCD(n, d)
    IN  IF n = 0
        THEN [tag |-> "float", cls |-> "fin", sg |-> sg, n |-> 0, d |-> 1]
        ELSE [tag |-> "float", cls |-> "fin", sg |-> sg, n |-> n \div g, d |-> d \div g]

NaN == [tag |-> "float", cls |-> "nan", sg |-> 1, n |-> 0, d |-> 1]

Inf(sg) == [tag |-> "float", cls |-> "inf", sg |-> sg, n |-> 0, d |-> 1]

Opaque(sg) == [tag |-> "float", cls |-> "opq", sg |-> sg, n |-> 0, d |-> 1]

\* `a as FloatType` for an Int operand; a Float operand is used as it is
AsFloat(c) == IF c.tag = "int" THEN ConstFloat(c.sg, c.n, 1) ELSE c

IsZero(f) == f.cls = "fin" /\ f.n = 0

IsIntegral(f) == f.cls = "fin" /\ f.d = 1

\* f.is_nan()
is_nan(f) == f.cls = "nan"

\* f.is_infinite()
is_infinite(f) == f.cls = "inf"

FNeg(x) == IF x.cls = "nan" THEN x ELSE [x EXCEPT !.sg = -x.sg]

\* a + b on floats (IEEE-754: inf - inf is NaN, x + (-x) is +0.0).
FAdd(x, y) ==
    CASE x.cls = "nan" \/ y.cls = "nan" -> NaN
      [] x.cls = "inf" /\ y.cls = "inf" -> IF x.sg = y.sg THEN x ELSE NaN
      [] x.cls = "inf" -> x
      [] y.cls = "inf" -> y
      [] x.cls = "fin" /\ y.cls = "fin" ->
            LET num == x.sg * x.n * y.d + y.sg * y.n * x.d
                den == x.d * y.d
            IN  IF num = 0
                THEN ConstFloat(IF x.sg = -1 /\ y.sg = -1 /\ x.n = 0 /\ y.n = 0 THEN -1 ELSE 1, 0, 1)
                ELSE ConstFloat(Sgn(num), Abs(num), den)

\* a - b on floats
FSub(x, y) == FAdd(x, FNeg(y))

\* a * b on floats (inf * 0 is NaN)
FMul(x, y) ==
    CASE x.cls = "nan" \/ y.cls = "nan" -> NaN
      [] (x.cls = "inf" /\ IsZero(y)) \/ (IsZero(x) /\ y.cls = "inf") -> NaN
      [] x.cls = "inf" \/ y.cls = "inf" -> Inf(x.sg * y.sg)
      [] x.cls = "fin" /\ y.cls = "fin" -> ConstFloat(x.sg * y.sg, x.n * y.n, x.d * y.d)

\* a / b on floats (x / 0 is +-inf, 0 / 0 and inf / inf are NaN)
FDiv(x, y) ==
    CASE x.cls = "nan" \/ y.cls = "nan" -> NaN
      [] x.cls = "inf" /\ y.cls = "inf" -> NaN
      [] x.cls = "inf" -> Inf(x.sg * y.sg)
      [] y.cls = "inf" -> ConstFloat(x.sg * y.sg, 0, 1)
      [] x.cls = "fin" /\ y.cls = "fin" ->
            IF y.n = 0
            THEN IF x.n = 0 THEN NaN ELSE Inf(x.sg * y.sg)
            ELSE ConstFloat(x.sg * y.sg, x.n * y.d, x.d * y.n)

\* a % b on floats: the remainder of the truncated quotient, with the sign
\* of the dividend (NaN for an infinite dividend or a zero divisor).
FRem(x, y) ==
    CASE x.cls = "nan" \/ y.cls = "nan" -> NaN
      [] x.cls = "inf" -> NaN
      [] IsZero(y) -> NaN
      [] y.cls = "inf" -> x
      [] x.cls = "fin" /\ y.cls = "fin" ->
            LET q == (x.n * y.d) \div (x.d * y.n)
            IN  ConstFloat(x.sg, x.n * y.d - q * x.d * y.n, x.d * y.d)

\* b^e for naturals, saturating just above MaxMag.
RECURSIVE SatPow(_, _)
SatPow(b, e) ==
    IF e = 0 THEN 1
    ELSE LET p == SatPow(b, e - 1)
         IN  IF p > MaxMag THEN MaxMag + 1
             ELSE IF p * b > MaxMag THEN MaxMag + 1 ELSE p * b

IsOddInt(f) == IsIntegral(f) /\ f.n % 2 = 1

\* |x| compared with 1 for a finite x: -1, 0 or 1
CmpOne(x) == IF x.n < x.d THEN -1 ELSE IF x.n = x.d THEN 0 ELSE 1

\* a.powf(b)
FPow(x, y) ==
    CASE IsZero(y) -> ConstFloat(1, 1, 1)
      [] ~IsZero(y) /\ x.cls = "fin" /\ x.sg = 1 /\ x.n = 1 /\ x.d = 1 -> ConstFloat(1, 1, 1)
      [] OTHER ->
         CASE x.cls = "nan" \/ y.cls = "nan" -> NaN
           [] y.cls = "inf" /\ x.cls = "inf" ->
                 IF y.sg = 1 THEN Inf(1) ELSE ConstFloat(1, 0, 1)
           [] y.cls = "inf" /\ x.cls = "fin" ->
                 IF CmpOne(x) = 0 THEN ConstFloat(1, 1, 1)
                 ELSE IF (CmpOne(x) = 1) = (y.sg = 1) THEN Inf(1) ELSE ConstFloat(1, 0, 1)
           [] y.cls = "fin" /\ x.cls = "inf" ->
                 LET s == IF x.sg = -1 /\ IsOddInt(y) THEN -1 ELSE 1
                 IN  IF y.sg = 1 THEN Inf(s) ELSE ConstFloat(s, 0, 1)
           [] y.cls = "fin" /\ x.cls = "fin" ->
                 LET s == IF x.sg = -1 /\ IsOddInt(y) THEN -1 ELSE 1
                 IN  IF x.n = 0
                     THEN IF y.sg = 1 THEN ConstFloat(s, 0, 1) ELSE Inf(s)
                     ELSE IF ~IsIntegral(y)
                     THEN IF x.sg = -1 THEN NaN ELSE Opaque(1)
                     ELSE LET pn == SatPow(x.n, y.n)
                              pd == SatPow(x.d, y.n)
                          IN  IF pn > MaxMag \/ pd > MaxMag THEN Opaque(s)
                              ELSE IF y.sg = 1 THEN ConstFloat(s, pn, pd)
                              ELSE ConstFloat(s, pd, pn)

(***************************************************************************)
(* Rust's integer operators on IntType (i64).  The model's integers stay   *)
(* far from the 64-bit limits, so wrapping never arises.                   *)
(***************************************************************************)
\* a / b: the quotient truncated toward zero (b # 0)
TruncDiv(a, b) == Sgn(a) * Sgn(b) * (Abs(a) \div Abs(b))

\* a % b: the remainder of the truncated quotient, signed as a (b # 0)
TruncRem(a, b) == Sgn(a) * (Abs(a) % Abs(b))

\* a & b on two's complement integers
RECURSIVE BitAndI(_, _)
BitAndI(a, b) ==
    IF a = 0 \/ b = 0 THEN 0
    ELSE IF a = -1 THEN b
    ELSE IF b = -1 THEN a
    ELSE (a % 2) * (b % 2) + 2 * BitAndI(a \div 2, b \div 2)

\* a | b on two's complement integers
RECURSIVE BitOrI(_, _)
BitOrI(a, b) ==
    IF a = 0 THEN b
    ELSE IF b = 0 THEN a
    ELSE IF a = -1 \/ b = -1 THEN -1
    ELSE (IF a % 2 = 1 \/ b % 2 = 1 THEN 1 ELSE 0) + 2 * BitOrI(a \div 2, b \div 2)

\* a ^ b on two's complement integers
RECURSIVE BitXorI(_, _)
BitXorI(a, b) ==
    IF a = 0 THEN b
    ELSE IF b = 0 THEN a
    ELSE IF a = -1 THEN -b - 1
    ELSE IF b = -1 THEN -a - 1
    ELSE (IF (a % 2) # (b % 2) THEN 1 ELSE 0) + 2 * BitXorI(a \div 2, b \div 2)

RECURSIVE Pow2(_)
Pow2(e) == IF e = 0 THEN 1 ELSE 2 * Pow2(e - 1)

\* The width of IntType: a shift amount outside 0..IntBits-1 panics in a
\* debug build and is masked in a release build.
IntBits == 64

ShiftInRange(b) == b >= 0 /\ b < IntBits

\* a << b for an amount in range
ShlI(a, b) == a * Pow2(b)

\* a >> b for an amount in range (arithmetic shift)
ShrI(a, b) == a \div Pow2(b)

(***************************************************************************)
(* Result<Option<Const>, CompileError>, and the two ways an operator can   *)
(* end without one: a panic, and a result that depends on the build.       *)
(***************************************************************************)
NoConst == ConstInt(0)

\* success(c) == Ok(Some(c))
success(c) == [kind |-> "some", k |-> c]

\* Ok(None): not foldable
OkNone == [kind |-> "none", k |-> NoConst]

\* Err(CompileError)
Err == [kind |-> "err", k |-> NoConst]

\* an abrupt termination of the compiler (a Rust panic)
Panic == [kind |-> "panic", k |-> NoConst]

\* a shift by an amount outside 0..63: debug and release builds differ
BuildDependent == [kind |-> "build", k |-> NoConst]

\* float_to_int: Some(f as IntType) when f.floor() == f
float_to_int(f) == IF IsIntegral(f) THEN success(ConstInt(f.sg * f.n)) ELSE OkNone

ignore_unhashable_float_zero_kept(input) ==
    IF input.kind = "some" /\ input.k.tag = "float"
       /\ (is_nan(input.k) \/ is_infinite(input.k))
    THEN OkNone
    ELSE input

ignore_unhashable_float(input) ==
    IF input.kind = "some" /\ input.k.tag = "float"
       /\ (is_nan(input.k) \/ is_infinite(input.k) \/ IsZero(input.k))
    THEN OkNone
    ELSE input

\* macro bin_op_normal: int (op) int stays Int, a Float operand promotes
add(self, other) ==
    ignore_unhashable_float(
        IF self.tag = "int" /\ other.tag = "int"
        THEN success(ConstInt(IntVal(self) + IntVal(other)))
        ELSE success(FAdd(AsFloat(self), AsFloat(other))))

sub(self, other) ==
    ignore_unhashable_float(
        IF self.tag = "int" /\ other.tag = "int"
        THEN success(ConstInt(IntVal(self) - IntVal(other)))
        ELSE success(FSub(AsFloat(self), AsFloat(other))))

mul(self, other) ==
    ignore_unhashable_float(
        IF self.tag = "int" /\ other.tag = "int"
        THEN success(ConstInt(IntVal(self) * IntVal(other)))
        ELSE success(FMul(AsFloat(self), AsFloat(other))))

div(self, other) ==
    ignore_unhashable_float(success(FDiv(AsFloat(self), AsFloat(other))))

pow(self, other) ==
    ignore_unhashable_float(success(FPow(AsFloat(self), AsFloat(other))))

idiv_float_folds(self, other) ==
    ignore_unhashable_float(
        IF self.tag = "int" /\ other.tag = "int"
        THEN IF IntVal(other) = 0
             THEN Err
             ELSE success(ConstInt(TruncDiv(IntVal(self), IntVal(other))))
        ELSE success(FDiv(AsFloat(self), AsFloat(other))))

idiv(self, other) ==
    ignore_unhashable_float(
        IF self.tag = "int" /\ other.tag = "int"
        THEN IF IntVal(other) = 0
             THEN Err
             ELSE success(ConstInt(TruncDiv(IntVal(self), IntVal(other))))
        ELSE OkNone)

rem(self, other) ==
    ignore_unhashable_float(
        IF self.tag = "int" /\ other.tag = "int"
        THEN IF IntVal(other) = 0
             THEN Panic
             ELSE success(ConstInt(TruncRem(IntVal(self), IntVal(other))))
        ELSE success(FRem(AsFloat(self), AsFloat(other))))

\* The operand of a bitwise operator as an integer: an Int as it is, a Float
\* through float_to_int.
BitOperand(c) == IF c.tag = "int" THEN success(c) ELSE float_to_int(c)

\* a $op b on integers, for the $op of bin_op_int
IntOp(op, a, b) ==
    CASE op = "^" -> BitXorI(a, b)
      [] op = "&" -> BitAndI(a, b)
      [] op = "|" -> BitOrI(a, b)
      [] op = "<<" -> ShlI(a, b)
      [] op = ">>" -> ShrI(a, b)

\* macro bin_op_int, for the operator op on integers
BinOpInt(self, other, op) ==
    LET a == BitOperand(self)
        b == BitOperand(other)
    IN  ignore_unhashable_float(
            IF a.kind = "some" /\ b.kind = "some"
            THEN success(ConstInt(IntOp(op, IntVal(a.k), IntVal(b.k))))
            ELSE OkNone)

bitxor(self, other) == BinOpInt(self, other, "^")

bitand(self, other) == BinOpInt(self, other, "&")

bitor(self, other) == BinOpInt(self, other, "|")

shl(self, other) ==
    LET b == BitOperand(other)
    IN  IF BitOperand(self).kind = "some" /\ b.kind = "some" /\ ~ShiftInRange(IntVal(b.k))
        THEN BuildDependent
        ELSE BinOpInt(self, other, "<<")

shr(self, other) ==
    LET b == BitOperand(other)
    IN  IF BitOperand(self).kind = "some" /\ b.kind = "some" /\ ~ShiftInRange(IntVal(b.k))
        THEN BuildDependent
        ELSE BinOpInt(self, other, ">>")

(***************************************************************************)
(* Expressions (crate::ast::Expr), as far as the compiler handles them.    *)
(***************************************************************************)
EInt(v) == [e |-> "Int", c |-> ConstInt(v)]

EFloat(f) == [e |-> "Float", c |-> f]

ENil == [e |-> "Nil"]

ETrue == [e |-> "True"]

EName(x) == [e |-> "Name", name |-> x]

EBin(op, l, r) == [e |-> "BinExpr", op |-> op, left |-> l, right |-> r]

EParen(x) == [e |-> "ParenExpr", expr |-> x]

\* The operators try_const_folding accepts.
FoldOps ==
    {"Add", "Minus", "Mul", "Div", "IDiv", "Mod", "Pow",
     "BAnd", "BOr", "BXor", "Shl", "Shr"}

apply_bin_op(op, l, r) ==
    CASE op = "Add" -> add(l, r)
      [] op = "Minus" -> sub(l, r)
      [] op = "Mul" -> mul(l, r)
      [] op = "Div" -> div(l, r)
      [] op = "IDiv" -> idiv(l, r)
      [] op = "Mod" -> rem(l, r)
      [] op = "Pow" -> pow(l, r)
      [] op = "BAnd" -> bitand(l, r)
      [] op = "BOr" -> bitor(l, r)
      [] op = "BXor" -> bitxor(l, r)
      [] op = "Shl" -> shl(l, r)
      [] op = "Shr" -> shr(l, r)

\* Both operands are folded before either result is looked at; a panic
\* ends the compiler wherever it happens, an error is the result of the
\* whole fold, and one operand that does not fold makes the whole not fold.
FoldBoth(op, l, r) ==
    CASE l.kind = "panic" \/ r.kind = "panic" -> Panic
      [] l.kind = "build" \/ r.kind = "build" -> BuildDependent
      [] l.kind = "err" \/ r.kind = "err" -> Err
      [] l.kind = "some" /\ r.kind = "some" -> apply_bin_op(op, l.k, r.k)
      [] OTHER -> OkNone

RECURSIVE try_const_folding(_)
try_const_folding(expr) ==
    CASE expr.e = "Int" -> success(expr.c)
      [] expr.e = "Float" -> success(expr.c)
      [] expr.e = "BinExpr" ->
            FoldBoth(expr.op, try_const_folding(expr.left), try_const_folding(expr.right))
      [] expr.e = "ParenExpr" -> try_const_folding(expr.expr)
      [] OTHER -> Panic

(***************************************************************************)
(* The constant pool (Proto::add_const): a sequence without repetitions;   *)
(* a slot is a position in it, counted from 0.                             *)
(***************************************************************************)
SlotOf(consts, k) == CHOOSE i \in 1..Len(consts) : consts[i] = k

HasConst(consts, k) == \E i \in 1..Len(consts) : consts[i] = k

\* The pool after add_const(k), and the slot add_const returns.
add_const(consts, k) == IF HasConst(consts, k) THEN consts ELSE Append(consts, k)

const_slot(consts, k) == SlotOf(add_const(consts, k), k) - 1

(***************************************************************************)
(* FoldSpec: compile_expr applied to binary expressions over literals.     *)
(***************************************************************************)
IntLeaves == {EInt(v) : v \in -MaxInt..MaxInt}

FloatLeaves == {EFloat(ConstFloat(Sgn(k), Abs(k), 2)) : k \in -MaxHalf..MaxHalf}

Leaves == IntLeaves \cup FloatLeaves

NoExpr == ENil

IsLeaf(x) == x.e \in {"Int", "Float"}

\* The folds the model follows: no shift by an amount outside 0..63 (its
\* result depends on the build), and no operand whose magnitude is not
\* tracked.
Tracked(r) == r.kind # "build" /\ ~(r.kind = "some" /\ r.k.cls = "opq")

\* compile_expr(expr) for a binary expression: the fold, and the pool with
\* the folded constant interned.
CompileExpr(expr) ==
    LET l == try_const_folding(expr.left)
        r == try_const_folding(expr.right)
        res == try_const_folding(expr)
    IN  /\ Tracked(l) /\ Tracked(r) /\ res.kind # "build"
        /\ fexpr' = expr
        /\ flhs' = l
        /\ frhs' = r
        /\ fres' = res
        /\ pool' = IF res.kind = "some" THEN add_const(pool, res.k) ELSE pool
        /\ UNCHANGED compVars

FoldInit ==
    /\ proto_contexts = <<>>
    /\ pc = "new"
    /\ result = "none"
    /\ stat = [kind |-> "none"]
    /\ regs0 = <<>>
    /\ top0 = 0
    /\ locals0 = 0
    /\ moves = <<>>
    /\ apply_log = <<>>
    /\ fexpr = NoExpr
    /\ flhs = OkNone
    /\ frhs = OkNone
    /\ fres = OkNone
    /\ pool = <<>>

\* A binary expression over two literals.
FoldLeaves ==
    /\ fexpr = NoExpr
    /\ \E op \in FoldOps, l \in Leaves, r \in Leaves : CompileExpr(EBin(op, l, r))

\* A binary expression with the last expression as its left operand,
\* parenthesised or not.
FoldNestedLeft ==
    /\ fexpr.e = "BinExpr" /\ IsLeaf(fexpr.left) /\ IsLeaf(fexpr.right)
    /\ \E op \in FoldOps, r \in Leaves, x \in {fexpr, EParen(fexpr)} :
          CompileExpr(EBin(op, x, r))

\* A binary expression with the last expression as its right operand.
FoldNestedRight ==
    /\ fexpr.e = "BinExpr" /\ IsLeaf(fexpr.left) /\ IsLeaf(fexpr.right)
    /\ \E op \in FoldOps, l \in Leaves : CompileExpr(EBin(op, l, fexpr))

FoldNext == FoldLeaves \/ FoldNestedLeft \/ FoldNestedRight

FoldSpec == FoldInit /\ [][FoldNext]_vars

(***************************************************************************)
(* The prototype collaborator (crate::proto, not part of the sources): a   *)
(* context holds the register top and the prototype's local-variable       *)
(* table, constant pool and instruction stream.  `code` keeps the          *)
(* instructions emitted since the current statement began; regs0 holds     *)
(* what running the earlier ones leaves in the registers.  `status` is     *)
(* "ok" until lowering fails: "err" after a CompileError, "panic" after    *)
(* todo!() or unreachable!().                                              *)
(***************************************************************************)
\* ProtoContext::new()
NewContext ==
    [reg_top |-> 0, local_vars |-> <<>>, consts |-> <<>>, code |-> <<>>, status |-> "ok"]

\* reserveRegisters(n): the first reserved slot is the top before the call
reverse_regs(ctx, n) == [ctx EXCEPT !.reg_top = @ + n]

get_reg_top(ctx) == ctx.reg_top

\* releaseRegisters(n)
free_reg(ctx, n) == [ctx EXCEPT !.reg_top = @ - n]

\* bindLocal(name): the slot is the position in the local-variable table
add_local_var(ctx, name) == [ctx EXCEPT !.local_vars = Append(@, name)]

IsLocal(ctx, name) == \E i \in 1..Len(ctx.local_vars) : ctx.local_vars[i] = name

\* lookupLocal(name): the slot of the innermost (latest) binding of name
get_local_var(ctx, name) ==
    (CHOOSE i \in 1..Len(ctx.local_vars) :
        /\ ctx.local_vars[i] = name
        /\ \A j \in (i + 1)..Len(ctx.local_vars) : ctx.local_vars[j] # name) - 1

Instr(op, a, b) == [op |-> op, a |-> a, b |-> b]

Emit(ctx, i) == [ctx EXCEPT !.code = Append(@, i)]

\* emitLoadConstant(dst, slot)
code_const(ctx, reg, k) == Emit(ctx, Instr("LOADK", reg, k))

\* emitMove(dst, src)
code_move(ctx, dst, src) == Emit(ctx, Instr("MOVE", dst, src))

\* emitNilFill(dst, count)
code_nil(ctx, from, n) == Emit(ctx, Instr("LOADNIL", from, n))

\* emitLoadBoolean(dst, value)
code_bool(ctx, reg, b) == Emit(ctx, Instr("LOADBOOL", reg, IF b THEN 1 ELSE 0))

(***************************************************************************)
(* The virtual machine's reading of the instructions: a register file is   *)
(* a function from the registers written so far to values.                 *)
(***************************************************************************)
\* The element of a one-element set.  {F(x) : x \in {e}} is the "let x = e"
\* of the source: e is evaluated once, before F.
Only(S) == CHOOSE x \in S : TRUE

Uninit == [t |-> "uninit"]

NilV == [t |-> "nil"]

BoolV(b) == [t |-> "bool", b |-> b]

ConstV(k) == [t |-> "const", k |-> k]

Rd(regs, r) == IF r \in DOMAIN regs THEN regs[r] ELSE Uninit

Wr(regs, r, v) == [x \in (DOMAIN regs) \cup {r} |-> IF x = r THEN v ELSE regs[x]]

RECURSIVE WrNil(_, _, _)
WrNil(regs, from, n) ==
    IF n = 0 THEN regs
    ELSE Only({WrNil(r, from + 1, n - 1) : r \in {Wr(regs, from, NilV)}})

Step(regs, consts, i) ==
    CASE i.op = "LOADK" -> Wr(regs, i.a, ConstV(consts[i.b + 1]))
      [] i.op = "MOVE" -> Wr(regs, i.a, Rd(regs, i.b))
      [] i.op = "LOADNIL" -> WrNil(regs, i.a, i.b)
      [] i.op = "LOADBOOL" -> Wr(regs, i.a, BoolV(i.b = 1))

RECURSIVE Exec(_, _, _)
Exec(code, consts, regs) ==
    IF code = <<>> THEN regs
    ELSE Only({Exec(Tail(code), consts, r) : r \in {Step(regs, consts, Head(code))}})

(***************************************************************************)
(* Expression lowering.                                                    *)
(***************************************************************************)
\* enum Index, and the two ways lowering ends without one
Index(kind, i) == [kind |-> kind, i |-> i]

Lowered(idx, ctx) == [idx |-> idx, ctx |-> ctx]

compile_expr(ctx, e) ==
    LET r == try_const_folding(e)
    IN  CASE r.kind = "some" ->
                Lowered(Index("ConstIndex", const_slot(ctx.consts, r.k)),
                        [ctx EXCEPT !.consts = add_const(@, r.k)])
          [] r.kind = "none" -> Lowered(Index("None", 0), ctx)
          [] r.kind = "err" -> Lowered(Index("Err", 0), ctx)
          [] OTHER -> Lowered(Index("Panic", 0), ctx)

expr(ctx, e) ==
    CASE e.e \in {"Int", "Float"} ->
            Lowered(Index("ConstIndex", const_slot(ctx.consts, e.c)),
                    [ctx EXCEPT !.consts = add_const(@, e.c)])
      [] e.e \in {"Nil", "True", "False"} -> Lowered(Index("None", 0), ctx)
      [] e.e = "Name" ->
            IF IsLocal(ctx, e.name)
            THEN Lowered(Index("RegIndex", get_local_var(ctx, e.name)), ctx)
            ELSE Lowered(Index("Panic", 0), ctx)
      [] e.e = "BinExpr" -> compile_expr(ctx, e)
      [] OTHER -> Lowered(Index("Panic", 0), ctx)

ExprSaved(r, e, reg) ==
    CASE r.idx.kind = "ConstIndex" -> code_const(r.ctx, reg, r.idx.i)
      [] r.idx.kind = "RegIndex" -> code_move(r.ctx, reg, r.idx.i)
      [] r.idx.kind = "None" ->
            CASE e.e = "Nil" -> code_nil(r.ctx, reg, 1)
              [] e.e = "True" -> code_bool(r.ctx, reg, TRUE)
              [] e.e = "False" -> code_bool(r.ctx, reg, FALSE)
              [] OTHER -> [r.ctx EXCEPT !.status = "panic"]
      [] r.idx.kind = "Err" -> [r.ctx EXCEPT !.status = "err"]
      [] OTHER -> [r.ctx EXCEPT !.status = "panic"]

expr_and_save(ctx, e, reg) == Only({ExprSaved(r, e, reg) : r \in {expr(ctx, e)}})

\* get_assinable_reg for Assignable::Name
get_assinable_reg(ctx, name) == get_local_var(ctx, name)

\* num_left - exprs.len()
Extra(num_left, exprs) == num_left - Len(exprs)

adjust_assign(ctx, num_left, exprs) ==
    LET extra == Extra(num_left, exprs)
        from == get_reg_top(ctx)
    IN  IF extra > 0
        THEN code_nil(reverse_regs(ctx, extra), from, extra)
        ELSE ctx

(***************************************************************************)
(* Statements.  A local declaration is [kind, names, exprs], an            *)
(* assignment [kind, left, right] with the names of its targets.           *)
(***************************************************************************)
LocalStatOf(names, exprs) == [kind |-> "local", names |-> names, exprs |-> exprs]

AssignStatOf(left, right) == [kind |-> "assign", left |-> left, right |-> right]

RECURSIVE BindNames(_, _)
BindNames(ctx, names) ==
    IF names = <<>> THEN ctx
    ELSE Only({BindNames(c, Tail(names)) : c \in {add_local_var(ctx, Head(names))}})

\* for expr in stat.exprs: reserve one register and save the value there
RECURSIVE LowerInits(_, _)
LowerInits(ctx, exprs) ==
    IF exprs = <<>> \/ ctx.status # "ok" THEN ctx
    ELSE Only({LowerInits(c, Tail(exprs)) :
                  c \in {expr_and_save(reverse_regs(ctx, 1), Head(exprs), get_reg_top(ctx))}})

\* adjust_assign(stat.names.len(), &stat.exprs), its result dropped
LocalAdjust(c, s) == IF c.status # "ok" THEN c ELSE adjust_assign(c, Len(s.names), s.exprs)

local_stat_lower_first(ctx, s) ==
    Only({LocalAdjust(c2, s) :
            c2 \in {BindNames(c1, s.names) : c1 \in {LowerInits(ctx, s.exprs)}}})

local_stat(ctx, s) ==
    Only({LocalAdjust(c2, s) :
            c2 \in {LowerInits(c1, s.exprs) : c1 \in {BindNames(ctx, s.names)}}})

last_use_temp_reg(s) == Len(s.right) # Len(s.left)

\* A variant that spares the temporary for the first expression instead of
\* the last.
UseTempFirst(s, i) == i # 1 \/ last_use_temp_reg(s)

\* Whether right-hand expression i (counted from 1) goes to a temporary.
UseTemp(s, i) == i # Len(s.right) \/ last_use_temp_reg(s)

Move(target, src) == [target |-> target, src |-> src]

\* "normal move": the loop over stat.right, from expression i on
RECURSIVE NormalMove(_, _, _, _)
NormalMove(ctx, s, i, to_move) ==
    IF i > Len(s.right) \/ ctx.status # "ok"
    THEN [ctx |-> ctx, to_move |-> to_move]
    ELSE IF UseTemp(s, i)
    THEN LET reg == get_reg_top(ctx)
         IN  Only({NormalMove(c, s, i + 1,
                              IF i <= Len(s.left)
                              THEN Append(to_move, Move(get_assinable_reg(c, s.left[i]), reg))
                              ELSE to_move) :
                     c \in {expr_and_save(reverse_regs(ctx, 1), s.right[i], reg)}})
    ELSE Only({NormalMove(c, s, i + 1, to_move) :
                 c \in {expr_and_save(ctx, s.right[i], get_assinable_reg(ctx, s.left[i]))}})

\* "nil move": the surplus targets take the registers adjust_assign fills
NilMove(ctx, s, to_move) ==
    LET reg == get_reg_top(ctx)
        extra == Extra(Len(s.left), s.right)
        left_start == Len(s.left) - extra
    IN  Only({[ctx |-> c,
               to_move |-> to_move \o
                  [i \in 1..(IF extra > 0 THEN extra ELSE 0) |->
                      Move(get_assinable_reg(c, s.left[left_start + i]), reg + i - 1)]] :
                c \in {adjust_assign(ctx, Len(s.left), s.right)}})

Reverse(q) == [i \in 1..Len(q) |-> q[Len(q) + 1 - i]]

MoveOrderForward(to_move) == to_move

\* to_move.iter().rev()
MoveOrder(to_move) == Reverse(to_move)

\* "apply moves": one move and one release for each entry of `order`.
\* The contexts at each point: before the first move and after each release.
RECURSIVE ApplyMoves(_, _)
ApplyMoves(ctx, order) ==
    IF order = <<>> THEN <<ctx>>
    ELSE Only({<<ctx>> \o ApplyMoves(c, Tail(order)) :
                 c \in {free_reg(code_move(ctx, Head(order).target, Head(order).src), 1)}})

\* "free extra regs"
FreeExtra(ctx, s) ==
    LET extra == Extra(Len(s.left), s.right)
    IN  IF extra < 0 THEN free_reg(ctx, -extra) ELSE ctx

\* The context and to_move when "apply moves" begins.
BeforeApply(ctx, s) ==
    Only({IF nm.ctx.status # "ok" THEN nm ELSE NilMove(nm.ctx, s, nm.to_move) :
            nm \in {NormalMove(ctx, s, 1, <<>>)}})

\* assign_stat with what it went through: the context it leaves, to_move,
\* and (instructions emitted, register top) at each point of "apply moves".
Applied(b, points, s) ==
    [ctx |-> FreeExtra(points[Len(points)], s),
     to_move |-> b.to_move,
     log |-> [k \in 1..Len(points) |->
                 [emitted |-> Len(points[k].code), top |-> points[k].reg_top]]]

AssignFrom(b, s) ==
    IF b.ctx.status # "ok"
    THEN [ctx |-> b.ctx, to_move |-> b.to_move, log |-> <<>>]
    ELSE Only({Applied(b, points, s) : points \in {ApplyMoves(b.ctx, MoveOrder(b.to_move))}})

AssignRun(ctx, s) == Only({AssignFrom(b, s) : b \in {BeforeApply(ctx, s)}})

assign_stat(ctx, s) == AssignRun(ctx, s).ctx

(***************************************************************************)
(* The compiler driver.                                                    *)
(***************************************************************************)
Names == <<"a", "b", "c">>

NameSet == {Names[i] : i \in 1..Len(Names)}

\* Names are interchangeable, so the model introduces them in the order of
\* Names: a statement may declare a name only if the names before it are
\* bound already or declared by the same statement.
InOrder(bound, names) ==
    LET all == bound \cup {names[i] : i \in 1..Len(names)}
    IN  \A i \in 1..Len(Names) : Names[i] \in all => \A j \in 1..(i - 1) : Names[j] \in all

SeqsOf(S, lo, hi) == UNION {[1..n -> S] : n \in lo..hi}

Distinct(q) == \A i, j \in 1..Len(q) : i # j => q[i] # q[j]

\* self.context()
Ctx == proto_contexts[Len(proto_contexts)]

\* The register file now: the current statement's instructions run on regs0.
Regs == Exec(Ctx.code, Ctx.consts, regs0)

\* The literals and names statements are built from; a name is only used
\* where it is bound (upvalues and globals are todo!()).  One integer
\* literal is enough: the locals hold different values (1, nil), so the
\* names tell the positions of an expression list apart.
SimpleExprs(bound) == {EInt(1)} \cup {EName(x) : x \in bound}

\* Expressions that the model puts in a statement only alone: nil, and a
\* binary expression whose fold is a compile error.
LoneExprs == {ENil, EBin("IDiv", EInt(1), EInt(0))}

\* The expression lists of a statement with n names or targets.
ExprLists(bound, n, lo) ==
    SeqsOf(SimpleExprs(bound), lo, MaxSize - n) \cup {<<e>> : e \in LoneExprs}

BoundNames(ctx) == {ctx.local_vars[i] : i \in 1..Len(ctx.local_vars)}

\* The registers below the top: those above it are free, and every one is
\* written again before it is read.
Live(regs, top) == [r \in {x \in DOMAIN regs : x < top} |-> regs[r]]

Init ==
    /\ proto_contexts = <<>>
    /\ pc = "new"
    /\ result = "none"
    /\ stat = [kind |-> "none"]
    /\ regs0 = <<>>
    /\ top0 = 0
    /\ locals0 = 0
    /\ moves = <<>>
    /\ apply_log = <<>>
    /\ fexpr = NoExpr
    /\ flhs = OkNone
    /\ frhs = OkNone
    /\ fres = OkNone
    /\ pool = <<>>

\* push_proto
push_proto(contexts) == Append(contexts, NewContext)

\* pop_proto
pop_proto(contexts) == SubSeq(contexts, 1, Len(contexts) - 1)

\* run / main_func up to the walk: push_proto, open
Run ==
    /\ pc \in {"new", "returned"}
    /\ proto_contexts = <<>>
    /\ proto_contexts' = push_proto(proto_contexts)
    /\ pc' = "walk"
    /\ result' = "none"
    /\ UNCHANGED <<stat, regs0, top0, locals0, moves, apply_log, foldVars>>

\* One statement of walk_block: the handler ran and left ctx2.  An Err
\* leaves main_func through `?`, before close and pop_proto.
Walked(s, ctx2, to_move, log) ==
    /\ ctx2.status # "panic"
    /\ stat' = s
    /\ top0' = Ctx.reg_top
    /\ locals0' = Len(Ctx.local_vars)
    /\ moves' = to_move
    /\ apply_log' = log
    /\ proto_contexts' = [proto_contexts EXCEPT ![Len(proto_contexts)] = ctx2]
    /\ IF ctx2.status = "err"
       THEN pc' = "returned" /\ result' = "err"
       ELSE pc' = "done" /\ UNCHANGED result
    /\ UNCHANGED <<regs0, foldVars>>

LocalStat ==
    /\ pc = "walk"
    /\ Ctx.reg_top <= MaxTop
    /\ \E names \in SeqsOf(NameSet, 1, MaxSize) :
          /\ Distinct(names)
          /\ InOrder(BoundNames(Ctx), names)
          /\ Len(Ctx.local_vars) + Len(names) <= MaxLocals
          /\ LET bound == BoundNames(Ctx) \cup {names[i] : i \in 1..Len(names)}
             IN  \E exprs \in ExprLists(bound, Len(names), 0) :
                    \E ctx2 \in {local_stat(Ctx, LocalStatOf(names, exprs))} :
                        Walked(LocalStatOf(names, exprs), ctx2, <<>>, <<>>)

AssignStat ==
    /\ pc = "walk"
    /\ Ctx.reg_top <= MaxTop
    /\ \E left \in SeqsOf(BoundNames(Ctx), 1, MaxSize - 1) :
          /\ Distinct(left)
          /\ \E right \in ExprLists(BoundNames(Ctx), Len(left), 1) :
                \E r \in {AssignRun(Ctx, AssignStatOf(left, right))} :
                    Walked(AssignStatOf(left, right), r.ctx, r.to_move, r.log)

\* walk_block goes on to the next statement.  From here on the model keeps
\* the effect of the instructions emitted so far instead of their text.
NextStat ==
    /\ pc = "done"
    /\ pc' = "walk"
    /\ \E regs \in {Regs} : regs0' = Live(regs, Ctx.reg_top)
    /\ proto_contexts' = [proto_contexts EXCEPT ![Len(proto_contexts)].code = <<>>]
    /\ stat' = [kind |-> "none"]
    /\ top0' = 0
    /\ locals0' = 0
    /\ moves' = <<>>
    /\ apply_log' = <<>>
    /\ UNCHANGED <<result, foldVars>>

\* main_func after the walk: close, and Ok(pop_proto())
Finish ==
    /\ pc = "walk"
    /\ proto_contexts' = pop_proto(proto_contexts)
    /\ pc' = "returned"
    /\ result' = "ok"
    /\ regs0' = <<>>
    /\ UNCHANGED <<stat, top0, locals0, moves, apply_log, foldVars>>

Next == Run \/ LocalStat \/ AssignStat \/ NextStat \/ Finish

Spec == Init /\ [][Next]_vars

(***************************************************************************)
(* Properties of the compiler (checked under Spec).  A statement's handler *)
(* has just returned Ok in the states with pc = "done".                    *)
(***************************************************************************)
\* The value expression e has in register file regs, names resolved in ctx.
ValueOf(e, ctx, regs) ==
    CASE e.e = "Int" -> ConstV(e.c)
      [] e.e = "Nil" -> NilV
      [] e.e = "Name" -> Rd(regs, get_local_var(ctx, e.name))

SeqSet(q) == {q[i] : i \in 1..Len(q)}

Min(x, y) == IF x < y THEN x ELSE y

\* C1: at every statement boundary the registers a statement reserved and
\* did not release are exactly those of the names it declared (none, for an
\* assignment): no register is leaked, whatever the counts n and m.
C1_NoLeakedRegister ==
    pc = "done" => Ctx.reg_top - top0 = Len(Ctx.local_vars) - locals0

\* C2: after an assignment to distinct pre-bound locals, target i holds the
\* value right-hand expression i had before the statement for i <= min(n, m),
\* and nil for m < i <= n.
C2_AssignMovesValues ==
    (pc = "done" /\ stat.kind = "assign") =>
        /\ \A i \in 1..Min(Len(stat.left), Len(stat.right)) :
              Rd(Regs, get_local_var(Ctx, stat.left[i])) = ValueOf(stat.right[i], Ctx, regs0)
        /\ \A i \in (Len(stat.right) + 1)..Len(stat.left) :
              Rd(Regs, get_local_var(Ctx, stat.left[i])) = NilV

\* a, b = b, a has run on two locals that held different values.
C2_SwapDone ==
    /\ pc = "done"
    /\ stat = AssignStatOf(<<"a", "b">>, <<EName("b"), EName("a")>>)
    /\ Rd(regs0, get_local_var(Ctx, "a")) # Rd(regs0, get_local_var(Ctx, "b"))
    /\ Rd(regs0, get_local_var(Ctx, "a")) # Uninit
    /\ Rd(regs0, get_local_var(Ctx, "b")) # Uninit

\* The context before the last statement, as far as names go.
Before == [Ctx EXCEPT !.local_vars = SubSeq(@, 1, locals0)]

\* An initializer whose value before the statement is defined: a literal, or
\* a local bound before the statement that the statement does not redeclare.
HasValueBefore(e) ==
    e.e = "Name" => (IsLocal(Before, e.name) /\ e.name \notin SeqSet(stat.names))

\* C3: after a local declaration with more names than initializers, the
\* register bound to name i holds initializer i's value for i <= m and nil
\* for m < i <= n.
C3_LocalFillsNil ==
    (/\ pc = "done" /\ stat.kind = "local"
     /\ Len(stat.names) > Len(stat.exprs)
     /\ \A i \in 1..Len(stat.exprs) : HasValueBefore(stat.exprs[i])) =>
        /\ \A i \in 1..Len(stat.exprs) :
              Rd(Regs, get_local_var(Ctx, stat.names[i])) = ValueOf(stat.exprs[i], Before, regs0)
        /\ \A i \in (Len(stat.exprs) + 1)..Len(stat.names) :
              Rd(Regs, get_local_var(Ctx, stat.names[i])) = NilV

\* C8: when run has returned, with a prototype or with an error, the context
\* it pushed is gone: the stack is as deep as before the call (empty).
C8_ContextDiscardedOnReturn ==
    pc = "returned" => Len(proto_contexts) = 0

\* The instructions "apply moves" has emitted by its point k.
EmittedBy(k) ==
    {Ctx.code[j] : j \in (apply_log[1].emitted + 1)..apply_log[k].emitted}

\* The moves of to_move still to be emitted at point k.
Pending(k) ==
    {j \in 1..Len(moves) : Instr("MOVE", moves[j].target, moves[j].src) \notin EmittedBy(k)}

\* C9: "apply moves" emits the deferred moves in reverse order of recording,
\* releases exactly one register after each, and at every point the source
\* of every move still pending is below the register top.
C9_ReverseMovesKeepSources ==
    (pc = "done" /\ stat.kind = "assign") =>
        /\ Len(apply_log) = Len(moves) + 1
        /\ \A k \in 1..Len(moves) :
              /\ apply_log[k + 1].emitted = apply_log[k].emitted + 1
              /\ Ctx.code[apply_log[k + 1].emitted] =
                    Instr("MOVE", moves[Len(moves) + 1 - k].target, moves[Len(moves) + 1 - k].src)
              /\ apply_log[k + 1].top = apply_log[k].top - 1
        /\ \A k \in 1..Len(apply_log) :
              \A j \in Pending(k) : moves[j].src < apply_log[k].top

\* An assignment with different counts has applied at least two moves.
C9_TwoMovesApplied ==
    /\ pc = "done" /\ stat.kind = "assign"
    /\ Len(stat.left) # Len(stat.right)
    /\ Len(moves) >= 2
    /\ Len(apply_log) = Len(moves) + 1

\* The position in the declaration of the last occurrence of name x.
DeclaredAt(x) ==
    CHOOSE i \in 1..Len(stat.names) :
        /\ stat.names[i] = x
        /\ \A j \in (i + 1)..Len(stat.names) : stat.names[j] # x

\* C10: in a local declaration an initializer that names a variable the same
\* statement declares is read from the register of that new binding: every
\* name is bound before any initializer is lowered.
C10_InitializerSeesNewBinding ==
    (pc = "done" /\ stat.kind = "local") =>
        \A i \in 1..Len(stat.exprs) :
            (stat.exprs[i].e = "Name" /\ stat.exprs[i].name \in SeqSet(stat.names)) =>
                Ctx.code[i] = Instr("MOVE", top0 + i - 1,
                                    locals0 + DeclaredAt(stat.exprs[i].name) - 1)

\* local a = a has been compiled where an earlier local a was in scope.
C10_ShadowingInitializer ==
    /\ pc = "done"
    /\ stat = LocalStatOf(<<"a">>, <<EName("a")>>)
    /\ IsLocal(Before, "a")

(***************************************************************************)
(* Properties of constant folding (checked under FoldSpec).                *)
(***************************************************************************)
IsBin(ops) == fexpr.e = "BinExpr" /\ fexpr.op \in ops

IntOperands == flhs.kind = "some" /\ frhs.kind = "some" /\ flhs.k.tag = "int" /\ frhs.k.tag = "int"

AFloatOperand ==
    flhs.kind = "some" /\ frhs.kind = "some" /\ (flhs.k.tag = "float" \/ frhs.k.tag = "float")

\* C4: an Integer floor-division or remainder by Int(0) folds to a compile
\* error: neither "not foldable" nor an abrupt termination.
C4_ZeroDivisorIsCompileError ==
    (IsBin({"IDiv", "Mod"}) /\ IntOperands /\ IntVal(frhs.k) = 0) => fres.kind = "err"

SpecialFloat(k) == k.tag = "float" /\ (k.cls \in {"nan", "inf"} \/ (k.cls = "fin" /\ k.n = 0))

\* x / 0, and x - x on floats: folds whose Float result is infinite, NaN or zero.
SpecialFold ==
    \/ IsBin({"Div"}) /\ flhs.kind = "some" /\ frhs.kind = "some" /\ frhs.k.n = 0
    \/ IsBin({"Minus"}) /\ AFloatOperand /\ AsFloat(flhs.k) = AsFloat(frhs.k)

\* C5: no Float constant that folding interns is NaN, infinite or zero, and
\* a fold with such a result is reported as not foldable.
C5_NoSpecialFloatInterned ==
    /\ \A i \in 1..Len(pool) : ~SpecialFloat(pool[i])
    /\ fres.kind = "some" => ~SpecialFloat(fres.k)
    /\ SpecialFold => fres.kind = "none"

\* A fold of x / 0 was reported not foldable while the pool holds a Float.
C5_SuppressedAfterFloat ==
    /\ IsBin({"Div"}) /\ flhs.kind = "some" /\ frhs.kind = "some" /\ frhs.k.n = 0
    /\ fres.kind = "none"
    /\ \E i \in 1..Len(pool) : pool[i].tag = "float"

\* floor(a / b) for b # 0
FloorDiv(a, b) ==
    LET q == Sgn(a) * Sgn(b) * (Abs(a) \div Abs(b))
    IN  IF q * b # a /\ ((a < 0) # (b < 0)) THEN q - 1 ELSE q

\* C6: for Integers a and b # 0, a floor-divided by b folds to
\* Int(floor(a / b)) and a remainder b to Int(a - floor(a / b) * b).
C6_FloorQuotientAndRemainder ==
    (IntOperands /\ IntVal(frhs.k) # 0) =>
        LET a == IntVal(flhs.k)
            b == IntVal(frhs.k)
        IN  /\ IsBin({"IDiv"}) => fres = success(ConstInt(FloorDiv(a, b)))
            /\ IsBin({"Mod"}) => fres = success(ConstInt(a - FloorDiv(a, b) * b))

MultipleOf(x, y) == (x.n * y.d) % (x.d * y.n) = 0

====
